---------------------------- MODULE Spec2Model ----------------------------
(***************************************************************************)
(* Model of the chat-export metrics engine of tg-stats (src/server.jsx):   *)
(* analyzeChatLog reduces one parsed export document to a metrics          *)
(* snapshot, aggregateMetrics folds the snapshots of a batch of documents  *)
(* into one accumulator and builds the consolidated result.                *)
(*                                                                         *)
(* A document is modelled by what DOMParser hands to the code: the ordered *)
(* list of its `.message` elements, each with the sub-elements the code    *)
(* queries.  Text is kept as real strings and every conversion the code    *)
(* applies (trim, split, toLowerCase, parseInt, Date parsing, toISOString, *)
(* number-to-key) is computed character by character.                      *)
(*                                                                         *)
(* The ChatDashboard component (src/index.jsx) that calls aggregateMetrics *)
(* on every change of the file selection is modelled by DashboardSpec.     *)
(***************************************************************************)
EXTENDS Integers, Sequences, FiniteSets, TLC

(***************************************************************************)
(* Strings                                                                 *)
(***************************************************************************)
\* seq.forEach with an accumulator: Op applied to the elements lo..hi of seq
\* in order.  The range is processed by halves, the left half first, which
\* keeps the evaluation shallow on long sequences (the test of left only
\* makes TLC evaluate the left half before it enters the right one).
RECURSIVE FoldRange(_, _, _, _, _)
FoldRange(Op(_, _), acc, seq, lo, hi) ==
    IF lo > hi THEN acc
    ELSE IF lo = hi THEN Op(acc, seq[lo])
    ELSE LET mid  == (lo + hi) \div 2
             left == FoldRange(Op, acc, seq, lo, mid)
         IN  IF left = left THEN FoldRange(Op, left, seq, mid + 1, hi) ELSE left

Fold(Op(_, _), acc, seq) == FoldRange(Op, acc, seq, 1, Len(seq))

Char(s, i) == SubSeq(s, i, i)

IsWS(c) == c \in {" ", "\t", "\n"}

IsDigit(c) == c \in {"0", "1", "2", "3", "4", "5", "6", "7", "8", "9"}

UpperChars == "ABCDEFGHIJKLMNOPQRSTUVWXYZ"

LowerChars == "abcdefghijklmnopqrstuvwxyz"

UpperSet == {Char(UpperChars, i) : i \in 1..Len(UpperChars)}

LowerSet == {Char(LowerChars, i) : i \in 1..Len(LowerChars)}

\* \w
IsWordChar(c) == IsDigit(c) \/ c = "_" \/ c \in UpperSet \/ c \in LowerSet

\* First index of sub in s, 0 when s does not contain it.
IndexOf(s, sub) ==
    LET hits == {i \in 1..(Len(s) - Len(sub) + 1) : SubSeq(s, i, i + Len(sub) - 1) = sub}
    IN  IF hits = {} THEN 0 ELSE CHOOSE i \in hits : \A j \in hits : i <= j

Includes(s, sub) == IndexOf(s, sub) > 0

StartsWith(s, prefix) == Len(s) >= Len(prefix) /\ SubSeq(s, 1, Len(prefix)) = prefix

RECURSIVE TrimStart(_)
TrimStart(s) ==
    IF Len(s) = 0 THEN s
    ELSE IF IsWS(Head(s)) THEN TrimStart(Tail(s)) ELSE s

RECURSIVE TrimEnd(_)
TrimEnd(s) ==
    IF Len(s) = 0 THEN s
    ELSE IF IsWS(Char(s, Len(s))) THEN TrimEnd(SubSeq(s, 1, Len(s) - 1)) ELSE s

Trim(s) == TrimEnd(TrimStart(s))

LowerMap == [c \in UpperSet |-> Char(LowerChars, IndexOf(UpperChars, c))]

LowerChar(c) == IF c \in UpperSet THEN LowerMap[c] ELSE c

\* Computed by halves, which keeps the recursion shallow on long texts.
RECURSIVE ToLowerCase(_)
ToLowerCase(s) ==
    IF Len(s) = 0 THEN s
    ELSE IF Len(s) = 1 THEN LowerChar(s)
    ELSE ToLowerCase(SubSeq(s, 1, Len(s) \div 2))
         \o ToLowerCase(SubSeq(s, (Len(s) \div 2) + 1, Len(s)))

\* s.split(sep) for a one-character separator: the pieces between separators.
RECURSIVE SplitOn(_, _)
SplitOn(s, sep) ==
    LET at == IndexOf(s, sep)
    IN  IF at = 0 THEN <<s>>
        ELSE <<SubSeq(s, 1, at - 1)>> \o SplitOn(SubSeq(s, at + 1, Len(s)), sep)

\* Index of the first non-whitespace character at or after i (Len(s)+1 if none).
RECURSIVE SkipWS(_, _)
SkipWS(s, i) ==
    IF i > Len(s) THEN i
    ELSE IF IsWS(Char(s, i)) THEN SkipWS(s, i + 1) ELSE i

Chars(s) == [i \in 1..Len(s) |-> Char(s, i)]

\* One character of a scan that cuts a string at its runs of whitespace.
SplitStep(scan, c) ==
    IF IsWS(c)
    THEN IF scan.inRun THEN scan
         ELSE [pieces |-> Append(scan.pieces, scan.piece), piece |-> "", inRun |-> TRUE]
    ELSE [pieces |-> scan.pieces, piece |-> scan.piece \o c, inRun |-> FALSE]

\* s.split(/\s+/): the pieces between maximal runs of whitespace.
SplitWS(s) ==
    LET scan == Fold(SplitStep, [pieces |-> <<>>, piece |-> "", inRun |-> FALSE], Chars(s))
    IN  Append(scan.pieces, scan.piece)

DigitVal(c) == IndexOf("0123456789", c) - 1

\* Length of the run of digits of s that starts at index i.
RECURSIVE DigitRun(_, _)
DigitRun(s, i) ==
    IF i > Len(s) THEN 0
    ELSE IF IsDigit(Char(s, i)) THEN 1 + DigitRun(s, i + 1) ELSE 0

RECURSIVE DigitsToNat(_)
DigitsToNat(s) ==
    IF Len(s) = 0 THEN 0
    ELSE 10 * DigitsToNat(SubSeq(s, 1, Len(s) - 1)) + DigitVal(Char(s, Len(s)))

\* parseInt(s): leading whitespace, an optional sign, then the longest run of
\* decimal digits; NaN (isNaN = TRUE) when there is none.
ParseInt(s) ==
    LET t    == TrimStart(s)
        neg  == Len(t) > 0 /\ Head(t) = "-"
        body == IF Len(t) > 0 /\ Head(t) \in {"-", "+"} THEN Tail(t) ELSE t
        n    == DigitRun(body, 1)
    IN  IF n = 0 THEN [isNaN |-> TRUE, value |-> 0]
        ELSE [isNaN |-> FALSE,
              value |-> IF neg THEN 0 - DigitsToNat(SubSeq(body, 1, n))
                        ELSE DigitsToNat(SubSeq(body, 1, n))]

\* n written in decimal in at least w digits (String.padStart(w, "0")).
RECURSIVE Pad(_, _)
Pad(n, w) ==
    LET str == ToString(n)
    IN  IF Len(str) >= w THEN str ELSE "0" \o Pad(n, w - 1)

\* Characters in UTF-16 code-unit order, as far as the modelled texts use them.
CodeOrder == "\t\n #()-.0123456789:@ABCDEFGHIJKLMNOPQRSTUVWXYZ_abcdefghijklmnopqrstuvwxyz|"

CodeOf(c) == IndexOf(CodeOrder, c)

\* a < b in the order of Array.prototype.sort() without a comparator.
RECURSIVE StrLess(_, _)
StrLess(a, b) ==
    IF Len(b) = 0 THEN FALSE
    ELSE IF Len(a) = 0 THEN TRUE
    ELSE IF Head(a) = Head(b) THEN StrLess(Tail(a), Tail(b))
    ELSE CodeOf(Head(a)) < CodeOf(Head(b))

\* a < b as numbers, for strings of decimal digits without leading zeros.
NumStrLess(a, b) == Len(a) < Len(b) \/ (Len(a) = Len(b) /\ StrLess(a, b))

(***************************************************************************)
(* JavaScript collections.  A plain object used as a counter is the        *)
(* sequence of its <<key, value>> entries in Object.entries order: keys    *)
(* that are array indices first, ascending, then the other keys in         *)
(* insertion order.  A Set is the sequence of its members in insertion     *)
(* order.                                                                  *)
(***************************************************************************)
EmptyObj == <<>>

\* A canonical numeric string below 2^32 - 1 (an "array index" key).
IsArrayIndex(k) ==
    /\ Len(k) > 0
    /\ \A i \in 1..Len(k) : IsDigit(Char(k, i))
    /\ (k = "0" \/ Head(k) # "0")
    /\ NumStrLess(k, "4294967295")

Keys(obj) == [i \in 1..Len(obj) |-> obj[i][1]]

KeySet(obj) == {obj[i][1] : i \in 1..Len(obj)}

Has(obj, k) == \E i \in 1..Len(obj) : obj[i][1] = k

\* obj[k] of a key that obj has.
Lookup(obj, k) == obj[CHOOSE i \in 1..Len(obj) : obj[i][1] = k][2]

\* obj[k] || 0
Get(obj, k) == IF Has(obj, k) THEN Lookup(obj, k) ELSE 0

\* Where a new key k enters the entries of obj.
InsertAt(obj, k) ==
    IF IsArrayIndex(k)
    THEN LET later == {i \in 1..Len(obj) :
                          ~IsArrayIndex(obj[i][1]) \/ NumStrLess(k, obj[i][1])}
         IN  IF later = {} THEN Len(obj) + 1
             ELSE CHOOSE i \in later : \A j \in later : i <= j
    ELSE Len(obj) + 1

\* obj[k] = v
Put(obj, k, v) ==
    IF Has(obj, k)
    THEN [i \in 1..Len(obj) |-> IF obj[i][1] = k THEN <<k, v>> ELSE obj[i]]
    ELSE LET at == InsertAt(obj, k)
         IN  SubSeq(obj, 1, at - 1) \o <<(<<k, v>>)>> \o SubSeq(obj, at, Len(obj))

\* obj[k] = (obj[k] || 0) + n
Increment(obj, k, n) == Put(obj, k, Get(obj, k) + n)

Members(seq) == {seq[i] : i \in 1..Len(seq)}

\* Mutant of SetAdd: membership is not checked.
SetAddUnchecked(set, x) == Append(set, x)

\* set.add(x)
SetAdd(set, x) == IF x \in Members(set) THEN set ELSE Append(set, x)

\* xs.forEach(x => set.add(x))
SetAddAll(set, xs) == Fold(SetAdd, set, xs)

\* seq.slice(0, n)
Slice(seq, n) == SubSeq(seq, 1, IF Len(seq) < n THEN Len(seq) ELSE n)

\* One step of a stable sort with comparator ([,a], [,b]) => b - a: e goes
\* before the first entry whose count is smaller than its own.
InsertByCount(sorted, e) ==
    LET smaller == {i \in 1..Len(sorted) : sorted[i][2] < e[2]}
        at      == IF smaller = {} THEN Len(sorted) + 1
                   ELSE CHOOSE i \in smaller : \A j \in smaller : i <= j
    IN  SubSeq(sorted, 1, at - 1) \o <<e>> \o SubSeq(sorted, at, Len(sorted))

\* entries.sort(([,a], [,b]) => b - a)
SortByCountDesc(entries) == Fold(InsertByCount, <<>>, entries)

InsertString(sorted, x) ==
    LET greater == {i \in 1..Len(sorted) : StrLess(x, sorted[i])}
        at      == IF greater = {} THEN Len(sorted) + 1
                   ELSE CHOOSE i \in greater : \A j \in greater : i <= j
    IN  SubSeq(sorted, 1, at - 1) \o <<x>> \o SubSeq(sorted, at, Len(sorted))

\* Array.from(set).sort()
SortStrings(xs) == Fold(InsertString, <<>>, xs)

Plus(a, b) == a + b

\* xs.reduce((a, b) => a + b, 0)
Sum(xs) == Fold(Plus, 0, xs)

\* Math.round(sum / n) for sum >= 0, n > 0: halves round up.
RoundDiv(sum, n) == (2 * sum + n) \div (2 * n)

(***************************************************************************)
(* Dates                                                                   *)
(***************************************************************************)
InvalidDate == [valid |-> FALSE, year |-> 0, month |-> 0, day |-> 0]

IsLeap(y) == (y % 4 = 0 /\ y % 100 # 0) \/ y % 400 = 0

DaysInMonth(y, m) ==
    IF m = 2 THEN (IF IsLeap(y) THEN 29 ELSE 28)
    ELSE IF m \in {4, 6, 9, 11} THEN 30 ELSE 31

AllDigits(s, n) == Len(s) = n /\ \A i \in 1..n : IsDigit(Char(s, i))

\* new Date(str) for the date-only ISO form YYYY-MM-DD (UTC midnight of that
\* day); any other string is taken as unparseable (Invalid Date).  Strings
\* that engines parse by their own legacy rules are not among the inputs.
NewDate(str) ==
    LET f == SplitOn(str, "-")
    IN  IF Len(f) = 3 /\ AllDigits(f[1], 4) /\ AllDigits(f[2], 2) /\ AllDigits(f[3], 2)
        THEN LET y == DigitsToNat(f[1])
                 m == DigitsToNat(f[2])
                 d == DigitsToNat(f[3])
             IN  IF m \in 1..12 /\ d \in 1..DaysInMonth(y, m)
                 THEN [valid |-> TRUE, year |-> y, month |-> m, day |-> d]
                 ELSE InvalidDate
        ELSE InvalidDate

\* A missing array element read in a template literal.
Part(parts, i) == IF i <= Len(parts) THEN parts[i] ELSE "undefined"

\* parseDate: "DD.MM.YYYY HH:mm:ss UTC-07:00" -> Date of YYYY-MM-DD.
parseDate(dateStr) ==
    LET datePart == SplitOn(dateStr, " ")[1]
        parts    == SplitOn(datePart, ".")
    IN  NewDate(Part(parts, 3) \o "-" \o Part(parts, 2) \o "-" \o Part(parts, 1))

\* date.toISOString().split('T')[0] of a valid date.
ISODate(date) == Pad(date.year, 4) \o "-" \o Pad(date.month, 2) \o "-" \o Pad(date.day, 2)

WeekdayNames ==
    <<"Sunday", "Monday", "Tuesday", "Wednesday", "Thursday", "Friday", "Saturday">>

MonthOffsets == <<0, 3, 2, 5, 0, 3, 5, 1, 4, 6, 2, 4>>

\* Day of the week (0 = Sunday) of a calendar date.
DayIndex(date) ==
    LET y == IF date.month < 3 THEN date.year - 1 ELSE date.year
    IN  (y + (y \div 4) - (y \div 100) + (y \div 400)
           + MonthOffsets[date.month] + date.day) % 7

\* date.toLocaleDateString('en-US', { weekday: 'long' }): the weekday in the
\* local time zone of the instant UTC midnight; west of UTC that instant still
\* belongs to the previous day.
WeekdayLong(date, west) ==
    IF ~date.valid THEN "Invalid Date"
    ELSE WeekdayNames[((DayIndex(date) + (IF west THEN 6 ELSE 0)) % 7) + 1]

(***************************************************************************)
(* Program constants                                                       *)
(***************************************************************************)
MinWordLength == 3

TopWordsLimit == 50

LongestThreadsLimit == 10

TopMentionsLimit == 20

MostActiveLimit == 10

MostReactedLimit == 10

(***************************************************************************)
(* The parsed document.  A message element is a record of what the code    *)
(* queries on it:                                                          *)
(*   classes      its class list ("default" marks a user message,          *)
(*                "service" a service message)                             *)
(*   from_name    the first .from_name element: present, textContent       *)
(*   date         the first .date.details element: present, its title      *)
(*                attribute (hasTitle, title) and its textContent          *)
(*   body_details the first .body.details element: present, textContent    *)
(*   text         the first .text element: present, textContent            *)
(*   anchors      the href of every <a> inside the message, in document    *)
(*                order ("" for an <a> without href)                       *)
(*   reactions    the number of .reaction elements                         *)
(*   reply_to     the first .reply_to element: present, and the onclick    *)
(*                attribute of its first <a> ("" when either is missing)   *)
(***************************************************************************)
NoElem == [present |-> FALSE, text |-> ""]

Elem(t) == [present |-> TRUE, text |-> t]

NoDate == [present |-> FALSE, hasTitle |-> FALSE, title |-> "", text |-> ""]

DateElem(title, t) == [present |-> TRUE, hasTitle |-> TRUE, title |-> title, text |-> t]

UntitledDateElem(t) == [present |-> TRUE, hasTitle |-> FALSE, title |-> "", text |-> t]

\* seq.filter(Test)
Filter(Test(_), seq) ==
    LET Keep(kept, x) == IF Test(x) THEN Append(kept, x) ELSE kept
    IN  Fold(Keep, <<>>, seq)

IsUserMessage(msg) == "default" \in msg.classes

IsServiceMessage(msg) == "service" \in msg.classes

\* getAttribute('title') is truthy.
HasFullDate(msg) == msg.date.present /\ msg.date.hasTitle /\ msg.date.title # ""

(***************************************************************************)
(* analyzeChatLog, first pass over the user messages: users, reactions,    *)
(* per-user activity by date, user types.                                  *)
(***************************************************************************)
UserTypesOf(name) ==
    (IF Includes(name, "|") THEN <<"Team Member">> ELSE <<>>)
    \o (IF Includes(name, "admin") THEN <<"Admin">> ELSE <<>>)
    \o (IF Includes(name, "mod") THEN <<"Moderator">> ELSE <<>>)

UserPass(acc, msg) ==
    IF ~msg.from_name.present THEN acc
    ELSE
      LET name == Trim(msg.from_name.text)
          date == parseDate(msg.date.title)
          \* toISOString throws on an Invalid Date; the catch only warns.
          dated == HasFullDate(msg) /\ date.valid
          byDate == IF Has(acc.userMessagesByDate, name)
                    THEN Lookup(acc.userMessagesByDate, name) ELSE EmptyObj
      IN  [userCounts |-> Increment(acc.userCounts, name, 1),
           reactionCounts |->
               IF msg.reactions > 0
               THEN Increment(acc.reactionCounts, name, msg.reactions)
               ELSE acc.reactionCounts,
           userMessagesByDate |->
               IF dated
               THEN Put(acc.userMessagesByDate, name, Increment(byDate, ISODate(date), 1))
               ELSE acc.userMessagesByDate,
           userTypes |-> SetAddAll(acc.userTypes, UserTypesOf(name))]

(***************************************************************************)
(* Second pass, over all messages: hour, weekday and date distributions.   *)
(***************************************************************************)
\* The hour bucket a message is counted in: the key, and whether it has one.
HourOf(msg) ==
    LET timeText == Trim(msg.date.text)
        hour     == ParseInt(SplitOn(timeText, ":")[1])
    IN  [counted |-> Includes(timeText, ":") /\ ~hour.isNaN,
         key     |-> ToString(hour.value)]

TimePassWest(west, acc, msg) ==
    IF ~HasFullDate(msg) THEN acc
    ELSE
      LET hour == HourOf(msg)
          date == parseDate(msg.date.title)
      IN  [hourCounts |->
               IF hour.counted THEN Increment(acc.hourCounts, hour.key, 1)
               ELSE acc.hourCounts,
           \* toLocaleDateString answers "Invalid Date" without throwing
           dayOfWeekCounts |->
               Increment(acc.dayOfWeekCounts, WeekdayLong(date, west), 1),
           \* toISOString throws on an Invalid Date; the catch only warns.
           messagesByDate |->
               IF date.valid THEN Increment(acc.messagesByDate, ISODate(date), 1)
               ELSE acc.messagesByDate]

(***************************************************************************)
(* Third pass: the day separators of the export ("unique dates").          *)
(***************************************************************************)
DatesPass(dates, msg) ==
    IF msg.body_details.present /\ Includes(msg.body_details.text, "2024")
       /\ ~Includes(Trim(msg.body_details.text), ":")
    THEN SetAdd(dates, Trim(msg.body_details.text))
    ELSE dates

(***************************************************************************)
(* Fourth pass, over the user messages: lengths, words, mentions, links.   *)
(***************************************************************************)
\* Mutant of CountWord: words of the minimum length are counted too.
CountWordFromMinLength(freq, word) ==
    IF Len(word) >= MinWordLength THEN Increment(freq, word, 1) ELSE freq

CountWord(freq, word) ==
    IF Len(word) > MinWordLength THEN Increment(freq, word, 1) ELSE freq

\* Length of the run of word characters of s that starts at index i.
RECURSIVE WordRun(_, _)
WordRun(s, i) ==
    IF i > Len(s) THEN 0
    ELSE IF IsWordChar(Char(s, i)) THEN 1 + WordRun(s, i + 1) ELSE 0

\* Index of the first "@" of s at or after i that a word character follows,
\* 0 if none.
NextMention(s, i) ==
    LET hits == {j \in i..(Len(s) - 1) : Char(s, j) = "@" /\ IsWordChar(Char(s, j + 1))}
    IN  IF hits = {} THEN 0 ELSE CHOOSE j \in hits : \A k \in hits : j <= k

\* text.match(/@[\w]+/g), <<>> when there is no match.
RECURSIVE MentionsFrom(_, _)
MentionsFrom(s, i) ==
    LET at == NextMention(s, i)
    IN  IF at = 0 THEN <<>>
        ELSE <<SubSeq(s, at, at + WordRun(s, at + 1))>>
             \o MentionsFrom(s, at + 1 + WordRun(s, at + 1))

CountMention(mentions, mention) == Increment(mentions, mention, 1)

AddLink(links, href) ==
    IF href # "" /\ ~StartsWith(href, "@") THEN SetAdd(links, href) ELSE links

ContentPass(acc, msg) ==
    IF ~msg.text.present THEN acc
    ELSE
      LET text == Trim(msg.text.text)
      IN  [messageLengths |-> Append(acc.messageLengths, Len(text)),
           wordFrequency  |-> Fold(CountWord, acc.wordFrequency, SplitWS(ToLowerCase(text))),
           mentions       |-> Fold(CountMention, acc.mentions, MentionsFrom(text, 1)),
           links          |-> Fold(AddLink, acc.links, msg.anchors)]

(***************************************************************************)
(* Fifth pass, over the user messages: reply chains.                       *)
(***************************************************************************)
\* onclick.match(/\d+/)?.[0]: the first run of digits, "" when there is none.
RECURSIVE FirstDigits(_, _)
FirstDigits(s, i) ==
    IF i > Len(s) THEN ""
    ELSE IF IsDigit(Char(s, i)) THEN SubSeq(s, i, i + DigitRun(s, i) - 1)
    ELSE FirstDigits(s, i + 1)

ReplyPass(chains, msg) ==
    LET replyId == FirstDigits(msg.reply_to.text, 1)
    IN  IF msg.reply_to.present /\ replyId # "" THEN Increment(chains, replyId, 1)
        ELSE chains

\* Math.round of the mean of the samples, 0 for no samples.
AverageLength(lengths) ==
    IF Len(lengths) > 0 THEN RoundDiv(Sum(lengths), Len(lengths)) ELSE 0

TopWords(wordFrequency) == Slice(SortByCountDesc(wordFrequency), TopWordsLimit)

(***************************************************************************)
(* analyzeChatLog(content): the metrics of one document, given the message *)
(* elements of the parsed content; west tells whether the local time zone  *)
(* lies west of UTC.                                                       *)
(***************************************************************************)
analyzeChatLog(messages, west) ==
    LET userMessages    == Filter(IsUserMessage, messages)
        serviceMessages == Filter(IsServiceMessage, messages)
        TimePass(acc, msg) == TimePassWest(west, acc, msg)
        users   == Fold(UserPass,
                        [userCounts |-> EmptyObj, reactionCounts |-> EmptyObj,
                         userMessagesByDate |-> EmptyObj, userTypes |-> <<>>],
                        userMessages)
        times   == Fold(TimePass,
                        [hourCounts |-> EmptyObj, dayOfWeekCounts |-> EmptyObj,
                         messagesByDate |-> EmptyObj],
                        messages)
        dates   == Fold(DatesPass, <<>>, messages)
        content == Fold(ContentPass,
                        [messageLengths |-> <<>>, wordFrequency |-> EmptyObj,
                         mentions |-> EmptyObj, links |-> <<>>],
                        userMessages)
        replyChains == Fold(ReplyPass, EmptyObj, userMessages)
    IN  [totalMessages       |-> Len(messages),
         userMessages        |-> Len(userMessages),
         serviceMessages     |-> Len(serviceMessages),
         uniqueUsers         |-> Len(Keys(users.userCounts)),
         messagesByUser      |-> users.userCounts,
         messagesByHour      |-> times.hourCounts,
         messagesByDayOfWeek |-> times.dayOfWeekCounts,
         messagesByDate      |-> times.messagesByDate,
         userMessagesByDate  |-> users.userMessagesByDate,
         reactionsByUser     |-> users.reactionCounts,
         datesCovered        |-> SortStrings(dates),
         averageMessageLength |-> AverageLength(content.messageLengths),
         messageLengthDistribution |-> content.messageLengths,
         topWords            |-> TopWords(content.wordFrequency),
         topMentions         |-> SortByCountDesc(content.mentions),
         uniqueLinks         |-> content.links,
         userTypes           |-> users.userTypes,
         longestThreads      |-> Slice(SortByCountDesc(replyChains), LongestThreadsLimit)]

(***************************************************************************)
(* aggregateMetrics: the accumulator, the merge of one document's metrics  *)
(* and the returned result.                                                *)
(***************************************************************************)
InitialAggregated ==
    [totalMessages |-> 0, userMessages |-> 0, serviceMessages |-> 0,
     uniqueUsers |-> <<>>, messagesByUser |-> EmptyObj, messagesByHour |-> EmptyObj,
     messagesByDayOfWeek |-> EmptyObj, messagesByDate |-> EmptyObj,
     reactionsByUser |-> EmptyObj, datesCovered |-> <<>>, messageLengths |-> <<>>,
     wordFrequency |-> EmptyObj, mentions |-> EmptyObj, links |-> <<>>,
     userTypes |-> <<>>, replyChains |-> EmptyObj]

\* Mutant of AddEntry: the document's count replaces the accumulated one.
AddEntryOverwriting(target, entry) == Put(target, entry[1], entry[2])

\* target[key] = (target[key] || 0) + count
AddEntry(target, entry) == Increment(target, entry[1], entry[2])

\* Object.entries(source).forEach(([key, count]) => target[key] = ... + count)
MergeCounts(target, source) == Fold(AddEntry, target, source)

\* Mutant of MergeLengths: the document's mean is pooled instead of its samples.
MergeLengthsOfAverages(lengths, distribution) ==
    lengths \o <<(IF Len(distribution) > 0
                  THEN RoundDiv(Sum(distribution), Len(distribution)) ELSE 0)>>

\* aggregated.messageLengths.push(...metrics.messageLengthDistribution)
MergeLengths(lengths, distribution) == lengths \o distribution

\* The body of the try block once analyzeChatLog has answered metrics.
MergeMetrics(agg, metrics) ==
    [totalMessages   |-> agg.totalMessages + metrics.totalMessages,
     userMessages    |-> agg.userMessages + metrics.userMessages,
     serviceMessages |-> agg.serviceMessages + metrics.serviceMessages,
     uniqueUsers     |-> SetAddAll(agg.uniqueUsers, Keys(metrics.messagesByUser)),
     messagesByUser  |-> MergeCounts(agg.messagesByUser, metrics.messagesByUser),
     messagesByHour  |-> MergeCounts(agg.messagesByHour, metrics.messagesByHour),
     messagesByDayOfWeek |->
         MergeCounts(agg.messagesByDayOfWeek, metrics.messagesByDayOfWeek),
     messagesByDate  |-> MergeCounts(agg.messagesByDate, metrics.messagesByDate),
     reactionsByUser |-> MergeCounts(agg.reactionsByUser, metrics.reactionsByUser),
     datesCovered    |-> SetAddAll(agg.datesCovered, metrics.datesCovered),
     messageLengths  |-> MergeLengths(agg.messageLengths, metrics.messageLengthDistribution),
     wordFrequency   |-> MergeCounts(agg.wordFrequency, metrics.topWords),
     mentions        |-> MergeCounts(agg.mentions, metrics.topMentions),
     links           |-> SetAddAll(agg.links, metrics.uniqueLinks),
     userTypes       |-> SetAddAll(agg.userTypes, metrics.userTypes),
     replyChains     |-> agg.replyChains]

\* .map(([user, count]) => ({ user, count }))
UserCountPairs(entries) ==
    [k \in 1..Len(entries) |-> [user |-> entries[k][1], count |-> entries[k][2]]]

\* Mutant of MostActiveUsers: the entries are cut without being sorted.
MostActiveUsersUnsorted(messagesByUser) ==
    UserCountPairs(Slice(messagesByUser, MostActiveLimit))

MostActiveUsers(messagesByUser) ==
    UserCountPairs(Slice(SortByCountDesc(messagesByUser), MostActiveLimit))

MostReactedTo(reactionsByUser) ==
    UserCountPairs(Slice(SortByCountDesc(reactionsByUser), MostReactedLimit))

\* The object aggregateMetrics returns.
AggregatedResult(agg) ==
    [totalMessages       |-> agg.totalMessages,
     userMessages        |-> agg.userMessages,
     serviceMessages     |-> agg.serviceMessages,
     uniqueUsers         |-> Len(agg.uniqueUsers),
     messagesByUser      |-> agg.messagesByUser,
     messagesByHour      |-> agg.messagesByHour,
     messagesByDayOfWeek |-> agg.messagesByDayOfWeek,
     messagesByDate      |-> agg.messagesByDate,
     reactionsByUser     |-> agg.reactionsByUser,
     datesCovered        |-> SortStrings(agg.datesCovered),
     averageMessageLength |-> AverageLength(agg.messageLengths),
     topWords            |-> TopWords(agg.wordFrequency),
     topMentions         |-> Slice(SortByCountDesc(agg.mentions), TopMentionsLimit),
     uniqueLinks         |-> agg.links,
     userTypes           |-> agg.userTypes,
     mostActiveUsers     |-> MostActiveUsers(agg.messagesByUser),
     mostReactedTo       |-> MostReactedTo(agg.reactionsByUser)]

(***************************************************************************)
(* Inputs.  A file content is the list of message elements its parse       *)
(* yields, or a content on which analyzeChatLog rejects (rejects = TRUE).  *)
(***************************************************************************)
MaxDocs == 2

Message(classes, from_name, date, body_details, text, anchors, reactions, reply_to) ==
    [classes |-> classes, from_name |-> from_name, date |-> date,
     body_details |-> body_details, text |-> text, anchors |-> anchors,
     reactions |-> reactions, reply_to |-> reply_to]

UserMsg(name, date, text) ==
    Message({"message", "default", "clearfix"}, name, date, NoElem, text, <<>>, 0, NoElem)

ServiceMsg(date, details) ==
    Message({"message", "service"}, NoElem, date, details, NoElem, <<>>, 0, NoElem)

Content(messages) == [rejects |-> FALSE, messages |-> messages]

RejectedContent == [rejects |-> TRUE, messages |-> <<>>]

\* "prefix<lo> prefix<lo+1> ... prefix<hi> "
RECURSIVE NumberedWords(_, _, _)
NumberedWords(prefix, lo, hi) ==
    IF lo > hi THEN ""
    ELSE IF lo = hi THEN prefix \o ToString(lo) \o " "
    ELSE NumberedWords(prefix, lo, (lo + hi) \div 2)
         \o NumberedWords(prefix, ((lo + hi) \div 2) + 1, hi)

CrowdName(k) == "user" \o ToString(k)

\* One message of each of n different users, each with one reaction.
CrowdMessages(n) ==
    [k \in 1..n |->
        Message({"message", "default"}, Elem(CrowdName(k)), NoDate, NoElem,
                Elem("hi"), <<>>, 1, NoElem)]

\* Single messages, one per shape of element the code distinguishes.
\* A sender name that is blank after trimming.
BlankNameMsg ==
    Message({"message", "default"}, Elem("   "),
            DateElem("01.01.2024 09:15:00 UTC-07:00", "09:15"), NoElem,
            Elem("Hello there everyone"), <<>>, 0, NoElem)

\* A displayed time without the machine-readable title; a repeated link.
UntitledTimeMsg ==
    Message({"message", "default"}, Elem(" Bob "), UntitledDateElem("12:30"), NoElem,
            Elem("see http links here"),
            <<"http://a.example", "http://b.example", "http://a.example">>, 0, NoElem)

\* An unparseable date and an hour outside the clock; a mention.
BadDateMsg ==
    Message({"message", "default"}, Elem("Carol mod"),
            DateElem("99.99.2024 25:61:00 UTC+00:00", "25:61"), NoElem,
            Elem("Thanks @bob and the rest"), <<"@bob">>, 0, NoElem)

\* No body text, but a link and a reply reference.
NoTextMsg ==
    Message({"message", "default"}, Elem("Bob"),
            DateElem("02.01.2024 23:59:00 UTC-07:00", "23:59"), NoElem,
            NoElem, <<"#go_to_message42", "http://c.example">>, 0,
            Elem("return GoToMessage(42)"))

\* A service message with a timestamp.
NoticeMsg ==
    ServiceMsg(DateElem("02.01.2024 07:00:00 UTC-07:00", "07:00"),
               Elem("Alice joined the group"))

\* A day separator of the export.
DaySeparatorMsg == ServiceMsg(NoDate, Elem(" 1 January 2024 "))

\* Numeric tokens, a time text without a colon, links in another order.
NumericWordsMsg ==
    Message({"message", "default"}, Elem("Dave|admin"),
            DateElem("29.02.2024 12:00:00 UTC-07:00", "noon"), NoElem,
            Elem("2024 1999 2024 @dave"), <<"http://b.example", "http://a.example">>,
            0, Elem("return GoToMessage(7)"))

\* Reactions received by the last user of the crowd.
ReactedMsg ==
    Message({"message", "default"}, Elem(CrowdName(MostActiveLimit + 1)),
            DateElem("03.01.2024 10:30:00 UTC-07:00", "10:30"), NoElem,
            Elem("wxyz"), <<>>, 3, NoElem)

\* Three user messages of lengths 2, 4, 6 on one day and a notice on the next.
ContentA ==
    Content(<<UserMsg(Elem("Alice"), DateElem("01.01.2024 10:00:00 UTC-07:00", "10:00"), Elem("ab")),
              UserMsg(Elem("Bob"), DateElem("01.01.2024 10:01:00 UTC-07:00", "10:01"), Elem("abcd")),
              UserMsg(Elem("Alice"), DateElem("01.01.2024 11:00:00 UTC-07:00", "11:00"), Elem("abcdef")),
              ServiceMsg(DateElem("02.01.2024 00:05:00 UTC-07:00", "00:05"), Elem("Bob pinned a message"))>>)

\* One user message of length 8 and a notice, both on the second day.
ContentB ==
    Content(<<UserMsg(Elem("Alice"), DateElem("02.01.2024 10:00:00 UTC-07:00", "10:00"), Elem("abcdefgh")),
              ServiceMsg(DateElem("02.01.2024 13:00:00 UTC-07:00", "13:00"), Elem("Carol joined the group"))>>)

\* A message with TopWordsLimit different words once each, then "wxyz".
ManyWords(prefix) ==
    Content(<<UserMsg(Elem("Erin"), DateElem("04.01.2024 10:00:00 UTC-07:00", "10:00"),
                      Elem(NumberedWords(prefix, 1, TopWordsLimit) \o "wxyz"))>>)

Crowd == Content(CrowdMessages(MostActiveLimit + 1))

\* The file contents a batch is drawn from, by name.
Catalog ==
    [blankName    |-> Content(<<BlankNameMsg>>),
     untitledTime |-> Content(<<UntitledTimeMsg>>),
     badDate      |-> Content(<<BadDateMsg>>),
     noText       |-> Content(<<NoTextMsg>>),
     notice       |-> Content(<<NoticeMsg>>),
     daySeparator |-> Content(<<DaySeparatorMsg>>),
     numericWords |-> Content(<<NumericWordsMsg>>),
     reacted      |-> Content(<<ReactedMsg>>),
     empty        |-> Content(<<>>),
     rejected     |-> RejectedContent,
     contentA     |-> ContentA,
     contentB     |-> ContentB,
     manyWordsA   |-> ManyWords("alfa"),
     manyWordsB   |-> ManyWords("beta"),
     crowd        |-> Crowd]

Batches == UNION {[1..n -> DOMAIN Catalog] : n \in 0..MaxDocs}

(***************************************************************************)
(* The state machine of one aggregateMetrics(fileContents) call.           *)
(***************************************************************************)
VARIABLES
    fileContents,   \* the argument: the names of the file contents, in order
    west,           \* the local time zone lies west of UTC
    next,           \* index of the content the for loop takes next
    aggregated,     \* the accumulator
    snapshots,      \* the metrics analyzeChatLog has answered so far, in order
    result,         \* <<r>>: the returned object; <<>>: not returned yet
    pc              \* "loop" or "returned"

\* The state of the ChatDashboard component (index.jsx).
VARIABLES
    selectedFiles,  \* useState([]): the selected files, by the name of their content
    metrics,        \* useState(null): <<>> for null, <<r>> for a result object
    loading,        \* useState(true)
    error,          \* useState(null): "null" or the message of the caught error
    dateRange,      \* useState({minDate: null, maxDate: null})
    startDate,      \* useState(null)
    endDate,        \* useState(null)
    analyses,       \* the analyzeFiles calls started so far, in order: the files
                    \* each closed over and where it stands
    effectPending   \* selectedFiles changed and its effect has not run yet

dashboard ==
    <<selectedFiles, metrics, loading, error, dateRange, startDate, endDate,
      analyses, effectPending>>

vars == <<fileContents, west, next, aggregated, snapshots, result, pc, dashboard>>

\* The component's state at its first render; the effect of the mount is due.
Mounted ==
    /\ selectedFiles = <<>>
    /\ metrics = <<>>
    /\ loading = TRUE
    /\ error = "null"
    /\ dateRange = [minDate |-> "null", maxDate |-> "null"]
    /\ startDate = "null"
    /\ endDate = "null"
    /\ analyses = <<>>
    /\ effectPending = TRUE

\* The k-th file content.
ContentAt(k) == Catalog[fileContents[k]]

Init ==
    /\ fileContents \in Batches
    /\ west \in BOOLEAN
    /\ next = 1
    /\ aggregated = InitialAggregated
    /\ snapshots = <<>>
    /\ result = <<>>
    /\ pc = "loop"
    /\ Mounted

\* One iteration of the loop whose try block completes.
MergeDocument ==
    /\ pc = "loop"
    /\ next <= Len(fileContents)
    /\ ~ContentAt(next).rejects
    /\ snapshots' = Append(snapshots, analyzeChatLog(ContentAt(next).messages, west))
    /\ aggregated' = MergeMetrics(aggregated, snapshots'[Len(snapshots')])
    /\ next' = next + 1
    /\ UNCHANGED <<fileContents, west, result, pc, dashboard>>

\* Mutant of SkipDocument: the first failure ends the loop.
SkipDocumentAborting ==
    /\ pc = "loop"
    /\ next <= Len(fileContents)
    /\ ContentAt(next).rejects
    /\ next' = Len(fileContents) + 1
    /\ UNCHANGED <<fileContents, west, aggregated, snapshots, result, pc, dashboard>>

\* Mutant of SkipDocument: the failed document is counted as one message.
SkipDocumentCounting ==
    /\ pc = "loop"
    /\ next <= Len(fileContents)
    /\ ContentAt(next).rejects
    /\ next' = next + 1
    /\ aggregated' = [aggregated EXCEPT !.totalMessages = @ + 1]
    /\ UNCHANGED <<fileContents, west, snapshots, result, pc, dashboard>>

\* One iteration in which analyzeChatLog rejects: the catch block logs.
SkipDocument ==
    /\ pc = "loop"
    /\ next <= Len(fileContents)
    /\ ContentAt(next).rejects
    /\ next' = next + 1
    /\ UNCHANGED <<fileContents, west, aggregated, snapshots, result, pc, dashboard>>

\* After the loop: the result object is built and returned.
Return ==
    /\ pc = "loop"
    /\ next > Len(fileContents)
    /\ result' = <<AggregatedResult(aggregated)>>
    /\ pc' = "returned"
    /\ UNCHANGED <<fileContents, west, next, aggregated, snapshots, dashboard>>

Next == MergeDocument \/ SkipDocument \/ Return

Spec == Init /\ [][Next]_vars

(***************************************************************************)
(* aggregateMetrics as its callers see it: the value its promise resolves  *)
(* to, the loop above run over all the contents.                           *)
(***************************************************************************)
aggregateMetrics(contents, zoneWest) ==
    LET Iteration(agg, content) ==
            IF content.rejects THEN agg
            ELSE MergeMetrics(agg, analyzeChatLog(content.messages, zoneWest))
    IN  AggregatedResult(Fold(Iteration, InitialAggregated, contents))

(***************************************************************************)
(* The ChatDashboard component: the file selection and the effect that     *)
(* analyses it.  Every change of selectedFiles starts one analyzeFiles     *)
(* call; a call that has files to read waits for them and goes on when     *)
(* they are read, whatever was selected in between.                        *)
(***************************************************************************)
MaxSelections == 3

\* The file lists the input element can hand over.
Selections == {<<>>, <<"notice">>, <<"reacted">>, <<"notice", "reacted">>}

\* await Promise.all(selectedFiles.map(file => file.text()))
FileTexts(files) == [k \in 1..Len(files) |-> Catalog[files[k]]]

\* new Date(Math.min(...allDates.map(date => new Date(date)))), by its ISO date.
AbsoluteMinDate(allDates) ==
    IF Len(allDates) = 0 THEN "Invalid Date"
    ELSE CHOOSE d \in Members(allDates) : \A e \in Members(allDates) : d = e \/ StrLess(d, e)

\* new Date(Math.max(...allDates.map(date => new Date(date)))), by its ISO date.
AbsoluteMaxDate(allDates) ==
    IF Len(allDates) = 0 THEN "Invalid Date"
    ELSE CHOOSE d \in Members(allDates) : \A e \in Members(allDates) : d = e \/ StrLess(e, d)

Analysis(files, at) == [files |-> files, at |-> at]

\* The change handler of the file input.
handleFileSelect ==
    /\ ~effectPending
    /\ Len(analyses) <= MaxSelections
    /\ \E files \in Selections : selectedFiles' = files
    /\ effectPending' = TRUE
    /\ UNCHANGED <<metrics, loading, error, dateRange, startDate, endDate, analyses>>
    /\ UNCHANGED <<fileContents, west, next, aggregated, snapshots, result, pc>>

\* The effect of [selectedFiles]: analyzeFiles() up to its first await.
analyzeFiles ==
    /\ effectPending
    /\ effectPending' = FALSE
    /\ IF Len(selectedFiles) = 0
       THEN /\ metrics' = <<>>
            /\ loading' = FALSE
            /\ analyses' = Append(analyses, Analysis(selectedFiles, "done"))
       ELSE /\ loading' = TRUE
            /\ analyses' = Append(analyses, Analysis(selectedFiles, "reading"))
            /\ UNCHANGED metrics
    /\ UNCHANGED <<selectedFiles, error, dateRange, startDate, endDate>>
    /\ UNCHANGED <<fileContents, west, next, aggregated, snapshots, result, pc>>

\* The files of call a are read: the rest of its try block and the finally.
ShowResults(a) ==
    /\ ~effectPending
    /\ analyses[a].at = "reading"
    /\ analyses' = [analyses EXCEPT ![a].at = "done"]
    /\ metrics' = <<aggregateMetrics(FileTexts(analyses[a].files), west)>>
    /\ LET allDates == Keys(metrics'[1].messagesByDate)
       IN  /\ dateRange' = [minDate |-> AbsoluteMinDate(allDates),
                            maxDate |-> AbsoluteMaxDate(allDates)]
           /\ startDate' = AbsoluteMinDate(allDates)
           /\ endDate' = AbsoluteMaxDate(allDates)
    /\ loading' = FALSE
    /\ UNCHANGED <<selectedFiles, error, effectPending>>
    /\ UNCHANGED <<fileContents, west, next, aggregated, snapshots, result, pc>>

\* Reading a file of call a rejects: the catch block and the finally.
ShowError(a) ==
    /\ ~effectPending
    /\ analyses[a].at = "reading"
    /\ analyses' = [analyses EXCEPT ![a].at = "failed"]
    /\ error' = "The file could not be read"
    /\ loading' = FALSE
    /\ UNCHANGED <<selectedFiles, metrics, dateRange, startDate, endDate, effectPending>>
    /\ UNCHANGED <<fileContents, west, next, aggregated, snapshots, result, pc>>

\* The component is mounted and no aggregateMetrics call is followed by steps.
DashboardInit ==
    /\ fileContents = <<>>
    /\ west \in BOOLEAN
    /\ next = 1
    /\ aggregated = InitialAggregated
    /\ snapshots = <<>>
    /\ result = <<>>
    /\ pc = "loop"
    /\ Mounted

DashboardNext ==
    \/ handleFileSelect
    \/ analyzeFiles
    \/ \E a \in 1..Len(analyses) : ShowResults(a)
    \/ \E a \in 1..Len(analyses) : ShowError(a)

DashboardSpec == DashboardInit /\ [][DashboardNext]_vars

(***************************************************************************)
(* What the properties speak about: the documents processed so far and     *)
(* their messages, read from the input and not from the accumulator.       *)
(***************************************************************************)
Returned == pc = "returned"

\* The contents the loop has taken and analyzeChatLog has answered for.
Accepted ==
    LET taken == SubSeq(fileContents, 1, next - 1)
        kept  == {k \in 1..Len(taken) : ~Catalog[taken[k]].rejects}
        Nth(n) == CHOOSE k \in kept : Cardinality({j \in kept : j < k}) = n - 1
    IN  [n \in 1..Cardinality(kept) |-> Catalog[taken[Nth(n)]]]

AppendMessages(messages, content) == messages \o content.messages

\* Their messages, in document order.
ProcessedMessages == Fold(AppendMessages, <<>>, Accepted)

\* The number of elements of seq for which Test holds.
Count(Test(_), seq) == Cardinality({k \in 1..Len(seq) : Test(seq[k])})

SumValues(obj) == Sum([k \in 1..Len(obj) |-> obj[k][2]])

\* The sum of obj[key] over a sequence of objects.
SumOfKey(objs, key) == Sum([k \in 1..Len(objs) |-> Get(objs[k], key)])

NoDuplicates(seq) == \A i, j \in 1..Len(seq) : seq[i] = seq[j] => i = j

NonIncreasing(counts) == \A i, j \in 1..Len(counts) : i < j => counts[i] >= counts[j]

(***************************************************************************)
(* C1                                                                      *)
(***************************************************************************)
\* The full word-frequency map analyzeChatLog builds for a document.
FullWordFrequency(messages) ==
    Fold(ContentPass,
         [messageLengths |-> <<>>, wordFrequency |-> EmptyObj,
          mentions |-> EmptyObj, links |-> <<>>],
         Filter(IsUserMessage, messages)).wordFrequency

\* C1 (as claimed): the aggregated topWords ranks the word counts summed over
\* the full per-document word-frequency maps: a word outside the top 50 of
\* every document whose summed count puts it among the 50 highest (fewer than
\* 50 other words have a summed count at least as high) is an entry of the
\* aggregated topWords, with its summed count.
C1_TopWordsFromFullFrequencies ==
    Returned =>
      LET freqs  == [k \in 1..Len(Accepted) |-> FullWordFrequency(Accepted[k].messages)]
          words  == UNION {KeySet(freqs[k]) : k \in 1..Len(freqs)}
          total  == [w \in words |-> SumOfKey(freqs, w)]
          cut(w) == \A k \in 1..Len(snapshots) : ~Has(snapshots[k].topWords, w)
          above(w) == {v \in words \ {w} : total[v] >= total[w]}
      IN  \A w \in words :
              cut(w) /\ Cardinality(above(w)) < TopWordsLimit
              => \E i \in 1..Len(result[1].topWords) :
                     result[1].topWords[i] = <<w, total[w]>>

(***************************************************************************)
(* C2                                                                      *)
(***************************************************************************)
HasText(msg) == IsUserMessage(msg) /\ msg.text.present

\* The length samples of all processed documents, from their messages.
PooledLengths ==
    LET texts == Filter(HasText, ProcessedMessages)
    IN  [k \in 1..Len(texts) |-> Len(Trim(texts[k].text.text))]

\* C2: the aggregated averageMessageLength is the rounded mean of the pooled
\* length samples of all processed documents, and 0 when there is no sample.
C2_PooledMean ==
    Returned =>
      result[1].averageMessageLength =
          IF Len(PooledLengths) = 0 THEN 0
          ELSE (2 * Sum(PooledLengths) + Len(PooledLengths)) \div (2 * Len(PooledLengths))

\* Samples [2,4,6] and [8] have been pooled: the mean is 5, not 6.
C2_Witness ==
    /\ Returned
    /\ fileContents = <<"contentA", "contentB">>
    /\ PooledLengths = <<2, 4, 6, 8>>
    /\ result[1].averageMessageLength = 5

(***************************************************************************)
(* C3                                                                      *)
(***************************************************************************)
CountMaps(m) ==
    <<m.messagesByUser, m.messagesByHour, m.messagesByDayOfWeek, m.messagesByDate,
      m.reactionsByUser>>

\* total has the union of the keys of parts, each with the sum of its values.
SumsByKeyUnion(total, parts) ==
    /\ NoDuplicates(Keys(total))
    /\ KeySet(total) = UNION {KeySet(parts[k]) : k \in 1..Len(parts)}
    /\ \A key \in KeySet(total) : Get(total, key) = SumOfKey(parts, key)

Rejecting == pc = "loop" /\ next <= Len(fileContents) /\ ContentAt(next).rejects

\* C4: an iteration whose document fails leaves the accumulator as it was and
\* the loop goes on to the next document; the call returns only after every
\* document was taken, and then each scalar count is the sum over the
\* documents that did not fail.
C4_FailedDocumentSkipped ==
    /\ [](Returned =>
            /\ next = Len(fileContents) + 1
            /\ result[1].totalMessages = Len(ProcessedMessages)
            /\ result[1].userMessages = Count(IsUserMessage, ProcessedMessages)
            /\ result[1].serviceMessages = Count(IsServiceMessage, ProcessedMessages))
    /\ [][Rejecting => /\ aggregated' = aggregated
                       /\ snapshots' = snapshots
                       /\ next' = next + 1
                       /\ pc' = "loop"]_vars

\* A batch of a failing document and a document of three user messages and
\* one notice has returned.
C4_Witness ==
    /\ Returned
    /\ fileContents = <<"rejected", "contentA">>
    /\ result[1].totalMessages = 4
    /\ result[1].userMessages = 3

(***************************************************************************)
(* C5                                                                      *)
(***************************************************************************)
\* C5: with no successfully processed document (an empty batch, or one in
\* which every document fails) the call returns a result whose scalars are
\* all 0 and whose mappings and lists are all empty.
C5_EmptyResult ==
    (Returned /\ \A k \in 1..Len(fileContents) : ContentAt(k).rejects) =>
        LET r == result[1]
        IN  /\ r.totalMessages = 0 /\ r.userMessages = 0 /\ r.serviceMessages = 0
            /\ r.uniqueUsers = 0 /\ r.averageMessageLength = 0
            /\ r.messagesByUser = EmptyObj /\ r.messagesByHour = EmptyObj
            /\ r.messagesByDayOfWeek = EmptyObj /\ r.messagesByDate = EmptyObj
            /\ r.reactionsByUser = EmptyObj
            /\ r.datesCovered = <<>> /\ r.uniqueLinks = <<>> /\ r.userTypes = <<>>
            /\ r.topWords = <<>> /\ r.topMentions = <<>>
            /\ r.mostActiveUsers = <<>> /\ r.mostReactedTo = <<>>

\* A batch in which every document failed has returned.
C5_Witness ==
    /\ Returned
    /\ Len(fileContents) > 1
    /\ \A k \in 1..Len(fileContents) : ContentAt(k).rejects

(***************************************************************************)
(* C6                                                                      *)
(***************************************************************************)
\* The displayed time text starts with an hour token: one or two digits
\* before the first colon, naming an hour of the day.
WellFormedHour(msg) ==
    LET timeText == Trim(msg.date.text)
        token    == SplitOn(timeText, ":")[1]
    IN  /\ msg.date.present
        /\ Includes(timeText, ":")
        /\ Len(token) \in {1, 2}
        /\ \A i \in 1..Len(token) : IsDigit(Char(token, i))
        /\ DigitsToNat(token) \in 0..23

\* C6 (as claimed): the values of messagesByHour sum to at most totalMessages,
\* and to exactly totalMessages when every message has a well-formed hour
\* token in its displayed time text.
C6_HourSumBound ==
    Returned =>
      /\ SumValues(result[1].messagesByHour) <= result[1].totalMessages
      /\ (\A k \in 1..Len(ProcessedMessages) : WellFormedHour(ProcessedMessages[k]))
         => SumValues(result[1].messagesByHour) = result[1].totalMessages

(***************************************************************************)
(* C7                                                                      *)
(***************************************************************************)
\* The sender names of the processed messages, trimmed, without the empty one.
SenderNames ==
    {Trim(ProcessedMessages[k].from_name.text) :
        k \in {j \in 1..Len(ProcessedMessages) : ProcessedMessages[j].from_name.present}}
    \ {""}

\* C7 (as claimed): uniqueUsers is the number of distinct sender names, non-empty
\* after trimming, of the messages of the processed documents.
C7_UniqueUsersCount == Returned => result[1].uniqueUsers = Cardinality(SenderNames)

(***************************************************************************)
(* C8                                                                      *)
(***************************************************************************)
TopWordsWellFormed(topWords) ==
    /\ Len(topWords) <= TopWordsLimit
    /\ NonIncreasing([k \in 1..Len(topWords) |-> topWords[k][2]])
    /\ \A k \in 1..Len(topWords) : Len(topWords[k][1]) > MinWordLength

Named(msg) == IsUserMessage(msg) /\ msg.from_name.present

\* The named user messages among the processed ones, as <<sender, reactions>>.
Sendings ==
    LET named == Filter(Named, ProcessedMessages)
    IN  [k \in 1..Len(named) |-> <<Trim(named[k].from_name.text), named[k].reactions>>]

\* The number of messages each sender sent.
MessagesOf(sendings) ==
    [user \in {sendings[k][1] : k \in 1..Len(sendings)} |->
        Cardinality({k \in 1..Len(sendings) : sendings[k][1] = user})]

\* The number of reactions each sender received.
ReactionsTo(sendings) ==
    [user \in {sendings[k][1] : k \in 1..Len(sendings)} |->
        Sum([k \in 1..Len(sendings) |->
                IF sendings[k][1] = user THEN sendings[k][2] ELSE 0])]

\* ranking lists the limit highest-counted users of the population, highest
\* first, each with its count.
RanksHighest(ranking, population, countOf, limit) ==
    LET listed == {ranking[k].user : k \in 1..Len(ranking)}
    IN  /\ Len(ranking) = IF Cardinality(population) < limit
                          THEN Cardinality(population) ELSE limit
        /\ NoDuplicates([k \in 1..Len(ranking) |-> ranking[k].user])
        /\ listed \subseteq population
        /\ \A k \in 1..Len(ranking) : ranking[k].count = countOf[ranking[k].user]
        /\ NonIncreasing([k \in 1..Len(ranking) |-> ranking[k].count])
        /\ \A out \in population \ listed :
              \A k \in 1..Len(ranking) : countOf[out] <= ranking[k].count

IsLink(href) == href # "" /\ ~StartsWith(href, "@")

AppendLinks(stream, msg) ==
    IF HasText(msg) THEN stream \o SelectSeq(msg.anchors, IsLink) ELSE stream

\* Every link the messages carry, in message order, repetitions included.
LinkStream(messages) == Fold(AppendLinks, <<>>, messages)

FirstSeen(stream, link) == CHOOSE i \in 1..Len(stream) :
                               stream[i] = link /\ \A j \in 1..(i - 1) : stream[j] # link

\* links lists every link of the stream once, in the order of first occurrence.
InFirstSeenOrder(links, stream) ==
    /\ NoDuplicates(links)
    /\ Members(links) = Members(stream)
    /\ \A i, j \in 1..Len(links) :
          i < j => FirstSeen(stream, links[i]) < FirstSeen(stream, links[j])

\* C10: uniqueLinks has no duplicates and lists the links in first-seen order:
\* in message order within each document, and across the document sequence in
\* the accumulator and the returned result.
C10_LinksFirstSeenOrder ==
    /\ \A k \in 1..Len(snapshots) :
          InFirstSeenOrder(snapshots[k].uniqueLinks, LinkStream(Accepted[k].messages))
    /\ InFirstSeenOrder(aggregated.links, LinkStream(ProcessedMessages))
    /\ Returned => result[1].uniqueLinks = aggregated.links

\* Two documents share their links in opposite orders, one repeats a link:
\* the result lists each once, in the order of the first document.
C10_Witness ==
    /\ Returned
    /\ fileContents = <<"numericWords", "untitledTime">>
    /\ LinkStream(ProcessedMessages) =
           <<"http://b.example", "http://a.example",
             "http://a.example", "http://b.example", "http://a.example">>
    /\ result[1].uniqueLinks = <<"http://b.example", "http://a.example">>

(***************************************************************************)
(* C11                                                                     *)
(***************************************************************************)
RepliesTo(msg) ==
    IsUserMessage(msg) /\ msg.reply_to.present /\ FirstDigits(msg.reply_to.text, 1) # ""

\* The reply-target ids that messages name, in message order.
ReplyTargetsOf(messages) ==
    LET replies == Filter(RepliesTo, messages)
    IN  [k \in 1..Len(replies) |-> FirstDigits(replies[k].reply_to.text, 1)]

ReplyTargets == ReplyTargetsOf(ProcessedMessages)

\* How often each key occurs in a sequence of keys.
Occurrences(keys) ==
    [key \in Members(keys) |-> Cardinality({k \in 1..Len(keys) : keys[k] = key})]

\* entries lists the limit highest-counted keys of countOf, highest first,
\* each as <<key, count>>.
RanksHighestEntries(entries, countOf, limit) ==
    LET listed == KeySet(entries)
    IN  /\ Len(entries) = IF Cardinality(DOMAIN countOf) < limit
                          THEN Cardinality(DOMAIN countOf) ELSE limit
        /\ NoDuplicates(Keys(entries))
        /\ listed \subseteq DOMAIN countOf
        /\ \A k \in 1..Len(entries) : entries[k][2] = countOf[entries[k][1]]
        /\ NonIncreasing([k \in 1..Len(entries) |-> entries[k][2]])
        /\ \A out \in (DOMAIN countOf) \ listed :
              \A k \in 1..Len(entries) : countOf[out] <= entries[k][2]

\* C11 (as claimed): when messages of the processed documents name reply
\* targets, the returned result has a longestThreads list: the 10 reply-target
\* ids with the highest counts summed over all documents, highest first, each
\* with its summed count.
C11_LongestThreadsAggregated ==
    (Returned /\ Len(ReplyTargets) > 0) =>
        /\ "longestThreads" \in DOMAIN result[1]
        /\ RanksHighestEntries(result[1].longestThreads, Occurrences(ReplyTargets),
                               LongestThreadsLimit)

(***************************************************************************)
(* C12                                                                     *)
(***************************************************************************)
IsCountedWord(word) == Len(word) > MinWordLength

AppendWords(stream, msg) ==
    IF HasText(msg)
    THEN stream \o SelectSeq(SplitWS(ToLowerCase(Trim(msg.text.text))), IsCountedWord)
    ELSE stream

\* The counted word tokens of messages, in reading order.
WordStream(messages) == Fold(AppendWords, <<>>, messages)

AppendMentions(stream, msg) ==
    IF HasText(msg) THEN stream \o MentionsFrom(Trim(msg.text.text), 1) ELSE stream

\* The mention tokens of messages, in reading order.
MentionStream(messages) == Fold(AppendMentions, <<>>, messages)

\* The senders of the named user messages, in message order.
SenderStream(messages) ==
    LET named == Filter(Named, messages)
    IN  [k \in 1..Len(named) |-> Trim(named[k].from_name.text)]

Reacted(msg) == Named(msg) /\ msg.reactions > 0

\* The senders of the messages that received reactions, in message order.
ReactedStream(messages) ==
    LET reacted == Filter(Reacted, messages)
    IN  [k \in 1..Len(reacted) |-> Trim(reacted[k].from_name.text)]

\* Entries of equal count stand in the order in which the stream first shows
\* their keys.
TiesInFirstSeenOrder(entries, stream) ==
    \A i, j \in 1..Len(entries) :
        (i < j /\ entries[i][2] = entries[j][2])
        => FirstSeen(stream, entries[i][1]) < FirstSeen(stream, entries[j][1])

EntriesOf(ranking) == [k \in 1..Len(ranking) |-> <<ranking[k].user, ranking[k].count>>]

\* C12 (as claimed): in every ranked list, of each document's metrics and of
\* the aggregated result, entries with equal counts appear in the order in
\* which their keys were first encountered in the messages, for every kind of
\* key, keys that consist only of digits included.
C12_TiesInFirstEncounterOrder ==
    /\ \A k \in 1..Len(snapshots) :
          LET messages == Accepted[k].messages
          IN  /\ TiesInFirstSeenOrder(snapshots[k].topWords, WordStream(messages))
              /\ TiesInFirstSeenOrder(snapshots[k].topMentions, MentionStream(messages))
              /\ TiesInFirstSeenOrder(snapshots[k].longestThreads, ReplyTargetsOf(messages))
    /\ Returned =>
          /\ TiesInFirstSeenOrder(result[1].topWords, WordStream(ProcessedMessages))
          /\ TiesInFirstSeenOrder(result[1].topMentions, MentionStream(ProcessedMessages))
          /\ TiesInFirstSeenOrder(EntriesOf(result[1].mostActiveUsers),
                                  SenderStream(ProcessedMessages))
          /\ TiesInFirstSeenOrder(EntriesOf(result[1].mostReactedTo),
                                  ReactedStream(ProcessedMessages))

(***************************************************************************)
(* C13                                                                     *)
(***************************************************************************)
\* The machine-readable timestamp is there and names a calendar date.
HasValidDate(msg) == HasFullDate(msg) /\ parseDate(msg.date.title).valid

\* The machine-readable timestamp is there and names no calendar date.
HasUnparseableDate(msg) == HasFullDate(msg) /\ ~parseDate(msg.date.title).valid

DatedSending(msg) == Named(msg) /\ HasValidDate(msg)

UnparseableWithHour(msg) == HasUnparseableDate(msg) /\ WellFormedHour(msg)

\* The sum of all counts of a nested sender -> date -> count mapping.
SumNested(obj) == Sum([k \in 1..Len(obj) |-> SumValues(obj[k][2])])

\* A document's date-derived buckets count the messages with a valid date and
\* no others, under weekday names and ISO dates only.
DateBucketsSkipUnparseable(snapshot, messages) ==
    /\ SumValues(snapshot.messagesByDayOfWeek) = Count(HasValidDate, messages)
    /\ KeySet(snapshot.messagesByDayOfWeek) \subseteq Members(WeekdayNames)
    /\ SumValues(snapshot.messagesByDate) = Count(HasValidDate, messages)
    /\ SumNested(snapshot.userMessagesByDate) = Count(DatedSending, messages)

\* C13 (as claimed): a message whose machine-readable timestamp names no
\* calendar date adds no entry and no count to messagesByDayOfWeek,
\* messagesByDate and userMessagesByDate, of its document's metrics and of the
\* aggregated result; it still counts in totalMessages and, when its hour
\* token is well formed, in messagesByHour; its document is processed.
C13_UnparseableDateSkipsDateBuckets ==
    /\ \A k \in 1..Len(snapshots) :
          LET messages == Accepted[k].messages
          IN  (\E i \in 1..Len(messages) : HasUnparseableDate(messages[i])) =>
                /\ DateBucketsSkipUnparseable(snapshots[k], messages)
                /\ snapshots[k].totalMessages = Len(messages)
                /\ SumValues(snapshots[k].messagesByHour)
                      >= Count(UnparseableWithHour, messages)
    /\ (Returned /\ \E i \in 1..Len(ProcessedMessages) :
                        HasUnparseableDate(ProcessedMessages[i])) =>
          /\ SumValues(result[1].messagesByDayOfWeek) = Count(HasValidDate, ProcessedMessages)
          /\ KeySet(result[1].messagesByDayOfWeek) \subseteq Members(WeekdayNames)
          /\ SumValues(result[1].messagesByDate) = Count(HasValidDate, ProcessedMessages)
          /\ result[1].totalMessages = Len(ProcessedMessages)

(***************************************************************************)
(* C14                                                                     *)
(***************************************************************************)
\* The keys that name an hour of the day.
HourKeys == {ToString(h) : h \in 0..23}

\* C14 (as claimed): every key of messagesByHour, in each document's metrics,
\* in the accumulator and in the returned result, is an integer from 0 to 23.
C14_HourKeysInRange ==
    /\ \A k \in 1..Len(snapshots) : KeySet(snapshots[k].messagesByHour) \subseteq HourKeys
    /\ KeySet(aggregated.messagesByHour) \subseteq HourKeys
    /\ Returned => KeySet(result[1].messagesByHour) \subseteq HourKeys

(***************************************************************************)
(* C15                                                                     *)
(***************************************************************************)
Textless(msg) == IsUserMessage(msg) /\ ~msg.text.present

\* A user message without a body-text element is counted for its sender and
\* contributes its links and its reply target.
TextlessCounted(snapshot, msg) ==
    /\ msg.from_name.present => Has(snapshot.messagesByUser, Trim(msg.from_name.text))
    /\ Members(SelectSeq(msg.anchors, IsLink)) \subseteq Members(snapshot.uniqueLinks)
    /\ RepliesTo(msg) => Has(snapshot.longestThreads, FirstDigits(msg.reply_to.text, 1))

\* C15 (as claimed): in each document's metrics every message counts in
\* totalMessages and every user message in userMessages; a user message
\* without a body-text element still counts in messagesByUser and contributes
\* its links to uniqueLinks and its reply target to the reply-thread counts
\* (documents of at most 10 reply targets, so that none is cut); every message
\* with a well-formed displayed hour counts in messagesByHour, with or without
\* a machine-readable timestamp.
C15_MissingFieldExcludesOnlyItsMetric ==
    \A k \in 1..Len(snapshots) :
        LET messages == Accepted[k].messages
            snapshot  == snapshots[k]
        IN  /\ snapshot.totalMessages = Len(messages)
            /\ snapshot.userMessages = Count(IsUserMessage, messages)
            /\ Cardinality(Members(ReplyTargetsOf(messages))) <= LongestThreadsLimit
               => \A i \in 1..Len(messages) :
                      Textless(messages[i]) => TextlessCounted(snapshot, messages[i])
            /\ SumValues(snapshot.messagesByHour) >= Count(WellFormedHour, messages)

(***************************************************************************)
(* C16                                                                     *)
(***************************************************************************)
\* Every analyzeFiles call started so far has completed, and no effect is due.
AllAnalysesCompleted ==
    /\ ~effectPending
    /\ Len(analyses) > 0
    /\ \A a \in 1..Len(analyses) : analyses[a].at # "reading"

\* What the dashboard shows for a selection whose analysis has run.
MetricsOf(files) ==
    IF Len(files) = 0 THEN <<>> ELSE <<aggregateMetrics(FileTexts(files), west)>>

\* C16 (as claimed): once every analysis started by the changes of the file
\* selection has completed, in whatever order, and the one of the most recent
\* selection has not failed, loading is false and the displayed metrics are
\* those of the most recently selected files.
C16_LatestSelectionDisplayed ==
    (AllAnalysesCompleted /\ analyses[Len(analyses)].at = "done") =>
        /\ analyses[Len(analyses)].files = selectedFiles
        /\ loading = FALSE
        /\ metrics = MetricsOf(selectedFiles)

=============================================================================
